---------------------------- MODULE Spec2Model ----------------------------
(***************************************************************************)
(* A model of the lavish schema compiler: the nom-based schema parser      *)
(* (lavish/src/parser/mod.rs), the naming/flattening layer                  *)
(* (src/ast/anchored.rs), the IR builder and protocol generator            *)
(* (lavish/src/codegen/rust/ir.rs) and the handler generator               *)
(* (src/codegen/rust/ir/handler.rs).                                        *)
(*                                                                         *)
(* Text is a sequence of one-character strings.  A position is a 1-based   *)
(* index into the text; Len(s)+1 is the end of input.                      *)
(***************************************************************************)
EXTENDS Integers, Sequences, FiniteSets, TLC

VARIABLES
    doc,        \* parser run: the description the schema text was written from
    src,        \* parser run: the schema text handed to `module`
    pc,         \* parser run: "ready" | "parsed"; "checked" in a code generation run
    result,     \* parser run: the IResult of `module` on src
    schema,     \* codegen run: the checked schema (a NamespaceBody)
    side,       \* codegen run: the side the Handler is generated for
    gpc,        \* codegen run: "idle" | "checked" | "ir" | "protocol" | "emitted"
    ir,         \* codegen run: the root ir::Namespace
    protocol,   \* codegen run: the three Atoms written by Display for Protocol
    handler,    \* codegen run: the slots and adapters written by Display for Handler
    phase,      \* generated handler: "none" | "registration" | "dispatch"
    slots,      \* generated handler: the value of every slot field of Handler<T>
    inflight,   \* generated handler: the adapter calls that have not returned
    returned,   \* generated handler: what the adapter calls returned, in order
    cmd,        \* compiler run: "none" | "compile" | "build"
    members,    \* compiler run: the modules named on the command line or in the rules
    cpc,        \* compiler run: where main is
    log         \* compiler run: the stages run so far, each with its module

vars == <<doc, src, pc, result, schema, side, gpc, ir, protocol, handler,
          phase, slots, inflight, returned, cmd, members, cpc, log>>
parserVars == <<doc, src, pc, result>>
codegenVars == <<schema, side, gpc, ir, protocol, handler>>
runtimeVars == <<phase, slots, inflight, returned>>
compilerVars == <<cmd, members, cpc, log>>
\* no generated handler is running
RuntimeIdle == phase = "none" /\ slots = <<>> /\ inflight = {} /\ returned = <<>>
\* no compiler command is running
CompilerIdle == cmd = "none" /\ members = {} /\ cpc = "none" /\ log = <<>>

-----------------------------------------------------------------------------
(* Characters *)

LowerSeq ==
    <<"a","b","c","d","e","f","g","h","i","j","k","l","m",
      "n","o","p","q","r","s","t","u","v","w","x","y","z">>
UpperSeq ==
    <<"A","B","C","D","E","F","G","H","I","J","K","L","M",
      "N","O","P","Q","R","S","T","U","V","W","X","Y","Z">>
Range(f) == {f[x] : x \in DOMAIN f}
Lower == Range(LowerSeq)
Upper == Range(UpperSeq)
Digit == {"0","1","2","3","4","5","6","7","8","9"}

\* parser/mod.rs:41  let chars = " \t\r\n";
SpChars == {" ", "\t", "\r", "\n"}
\* parser/mod.rs:47  the characters of an identifier
IdChars == Lower \cup Upper \cup Digit \cup {"_"}
\* parser/mod.rs:125 the characters usertyp takes
UserTypChars == IdChars \cup {"<", ">"}

-----------------------------------------------------------------------------
(* nom's IResult: Ok((rest, value)) | Err(Error) | Err(Failure).            *)
(* ctx is the list of context labels a VerboseError has collected,         *)
(* innermost first (the order add_context pushes them).                    *)

Ok(p, v) == [k |-> "ok", p |-> p, v |-> v, ctx |-> <<>>]
Error(p) == [k |-> "err", p |-> p, v |-> <<>>, ctx |-> <<>>]
IsOk(r) == r.k = "ok"

None == [some |-> FALSE]
Some(v) == [some |-> TRUE, v |-> v]

\* With([x \in {e} |-> body]) is body with x bound to the value of e
With(f) == f[CHOOSE x \in DOMAIN f : TRUE]

\* nom::combinator::cut: a recoverable Error becomes a Failure
cut(r) == IF r.k = "err" THEN [r EXCEPT !.k = "fail"] ELSE r

\* nom::error::context: an Error or a Failure gets the label added
context(label, r) == IF r.k = "ok" THEN r ELSE [r EXCEPT !.ctx = Append(@, label)]

\* nom::combinator::opt at position i: only a recoverable Error becomes None
opt(r, i) ==
    IF r.k = "ok" THEN Ok(r.p, Some(r.v))
    ELSE IF r.k = "err" THEN Ok(i, None)
    ELSE r

\* nom::combinator::map
map(r, v) == IF r.k = "ok" THEN Ok(r.p, v) ELSE r

\* nom::bytes::complete::tag
tag(t, s, i) ==
    IF i + Len(t) - 1 <= Len(s) /\ SubSeq(s, i, i + Len(t) - 1) = t
    THEN Ok(i + Len(t), t)
    ELSE Error(i)

\* nom::character::complete::char
char(c, s, i) == IF i <= Len(s) /\ s[i] = c THEN Ok(i + 1, c) ELSE Error(i)

\* the end of the longest run of characters of set cs starting at i
RECURSIVE RunEnd(_, _, _)
RunEnd(cs, s, i) == IF i <= Len(s) /\ s[i] \in cs THEN RunEnd(cs, s, i + 1) ELSE i

\* nom::bytes::complete::take_while
take_while(cs, s, i) ==
    With([e \in {RunEnd(cs, s, i)} |-> Ok(e, SubSeq(s, i, e - 1))])

\* nom::bytes::complete::take_while1
take_while1(cs, s, i) ==
    With([e \in {RunEnd(cs, s, i)} |->
        IF e = i THEN Error(i) ELSE Ok(e, SubSeq(s, i, e - 1))])

\* nom::bytes::complete::take_until("\n"): up to, not including, the next "\n"
take_until_nl(s, i) ==
    With([e \in {RunEnd(Range(s) \ {"\n"}, s, i)} |->
        IF e <= Len(s) THEN Ok(e, SubSeq(s, i, e - 1)) ELSE Error(i)])

-----------------------------------------------------------------------------
(* The schema parser, lavish/src/parser/mod.rs *)

\* the literals the grammar matches with tag(..)
kw_namespace == <<"n","a","m","e","s","p","a","c","e">>
kw_struct == <<"s","t","r","u","c","t">>
kw_fn == <<"f","n">>
kw_nf == <<"n","f">>
kw_arrow == <<"-",">">>
kw_slashes == <<"/","/">>
kw_server == <<"s","e","r","v","e","r">>
kw_client == <<"c","l","i","e","n","t">>
kw_Array == <<"A","r","r","a","y">>
kw_Option == <<"O","p","t","i","o","n">>
kw_Map == <<"M","a","p">>

\* fn sp: take_while over " \t\r\n"; never fails
sp(s, i) == take_while(SpChars, s, i)
\* the position sp leaves the input at
skip(s, i) == RunEnd(SpChars, s, i)
\* the trailing sp of terminated(.., sp)
trail(r, s) == IF r.k = "ok" THEN Ok(skip(s, r.p), r.v) ELSE r

\* fn id
id(s, i) == take_while1(IdChars, s, i)

\* the alternatives of basetyp, in the order alt tries them
BaseTypes ==
    << [t |-> <<"b","o","o","l">>, b |-> "Bool"],
       [t |-> <<"i","n","t","3","2">>, b |-> "Int32"],
       [t |-> <<"i","n","t","6","4">>, b |-> "Int64"],
       [t |-> <<"u","i","n","t","3","2">>, b |-> "UInt32"],
       [t |-> <<"u","i","n","t","6","4">>, b |-> "UInt64"],
       [t |-> <<"f","l","o","a","t","3","2">>, b |-> "Float32"],
       [t |-> <<"f","l","o","a","t","6","4">>, b |-> "Float64"],
       [t |-> <<"s","t","r","i","n","g">>, b |-> "String"],
       [t |-> <<"b","y","t","e","s">>, b |-> "Bytes"],
       [t |-> <<"t","i","m","e","s","t","a","m","p">>, b |-> "Timestamp"] >>

RECURSIVE basetyp_alt(_, _, _)
basetyp_alt(n, s, i) ==
    IF n > Len(BaseTypes) THEN Error(i)
    ELSE With([r \in {tag(BaseTypes[n].t, s, i)} |->
            IF r.k = "ok" THEN Ok(r.p, [kind |-> "Base", base |-> BaseTypes[n].b])
            ELSE basetyp_alt(n + 1, s, i)])

\* fn basetyp: spaced(alt((tag("bool"), .., tag("timestamp"))))
basetyp(s, i) == trail(basetyp_alt(1, s, skip(s, i)), s)

\* fn usertyp
usertyp(s, i) ==
    With([r \in {take_while1(UserTypChars, s, i)} |->
        map(r, [kind |-> "User", text |-> r.v])])

RECURSIVE typ(_, _)

\* terminated(spaced(tag(name)), spaced(char('<'))), the head of a bracketed type
bracket_open(name, s, i) ==
    With([r1 \in {trail(tag(name, s, skip(s, i)), s)} |->
        IF r1.k # "ok" THEN r1 ELSE trail(char("<", s, skip(s, r1.p)), s)])

\* terminated(typ, spaced(char('>')))
bracket_inner(s, i) ==
    With([r1 \in {typ(s, i)} |->
        IF r1.k # "ok" THEN r1
        ELSE map(trail(char(">", s, skip(s, r1.p)), s), r1.v)])

\* fn arraytyp
arraytyp(s, i) ==
    With([r1 \in {bracket_open(kw_Array, s, i)} |->
        IF r1.k # "ok" THEN r1
        ELSE With([r2 \in {bracket_inner(s, r1.p)} |->
                map(r2, [kind |-> "Array", inner |-> r2.v])])])

\* fn optiontyp
optiontyp(s, i) ==
    With([r1 \in {bracket_open(kw_Option, s, i)} |->
        IF r1.k # "ok" THEN r1
        ELSE With([r2 \in {bracket_inner(s, r1.p)} |->
                map(r2, [kind |-> "Option", inner |-> r2.v])])])

\* separated_pair(spaced(typ), char(','), spaced(typ)) of fn maptyp
map_pair(s, i) ==
    With([k \in {trail(typ(s, skip(s, i)), s)} |->
        IF k.k # "ok" THEN k
        ELSE With([c \in {char(",", s, k.p)} |->
                IF c.k # "ok" THEN c
                ELSE With([v \in {trail(typ(s, skip(s, c.p)), s)} |->
                        map(v, [kind |-> "Map", keys |-> k.v, values |-> v.v])])])])

\* fn maptyp
maptyp(s, i) ==
    With([r1 \in {bracket_open(kw_Map, s, i)} |->
        IF r1.k # "ok" THEN r1
        ELSE With([kv \in {map_pair(s, r1.p)} |->
                IF kv.k # "ok" THEN kv
                ELSE map(trail(char(">", s, skip(s, kv.p)), s), kv.v)])])

\* nom::branch::alt on two results: the second is tried on a recoverable Error only
alt(r1, r2) == IF r1.k = "err" THEN r2 ELSE r1

\* fn typ
typ(s, i) ==
    alt(maptyp(s, i),
        alt(arraytyp(s, i),
            alt(optiontyp(s, i),
                alt(basetyp(s, i), usertyp(s, i)))))

RECURSIVE Apply(_, _, _)

\* nom::multi::many0 of parser f (named, see Apply), items so far in acc
RECURSIVE many0(_, _, _, _)
many0(f, s, i, acc) ==
    With([r \in {Apply(f, s, i)} |->
        IF r.k = "err" THEN Ok(i, acc)
        ELSE IF r.k = "fail" THEN r
        ELSE IF r.p = i THEN Error(i)
        ELSE many0(f, s, r.p, Append(acc, r.v))])

\* nom::multi::many1
many1(f, s, i) ==
    With([r \in {Apply(f, s, i)} |->
        IF r.k # "ok" THEN r ELSE many0(f, s, r.p, <<r.v>>)])

\* the loop of nom::multi::separated_list after the first element
RECURSIVE separated_list_loop(_, _, _, _, _)
separated_list_loop(sep, f, s, i, acc) ==
    With([r1 \in {Apply(sep, s, i)} |->
        IF r1.k = "err" THEN Ok(i, acc)
        ELSE IF r1.k = "fail" THEN r1
        ELSE IF r1.p = i THEN Error(i)
        ELSE With([r2 \in {Apply(f, s, r1.p)} |->
                IF r2.k = "err" THEN Ok(i, acc)
                ELSE IF r2.k = "fail" THEN r2
                ELSE IF r2.p = i THEN Error(i)
                ELSE separated_list_loop(sep, f, s, r2.p, Append(acc, r2.v))])])

\* nom::multi::separated_list
separated_list(sep, f, s, i) ==
    With([r \in {Apply(f, s, i)} |->
        IF r.k = "err" THEN Ok(i, <<>>)
        ELSE IF r.k = "fail" THEN r
        ELSE IF r.p = i THEN Error(i)
        ELSE separated_list_loop(sep, f, s, r.p, <<r.v>>)])

\* fn comment_line: preceded(sp, preceded(tag("//"), preceded(sp, take_until("\n"))))
comment_line(s, i) ==
    With([r1 \in {tag(kw_slashes, s, skip(s, i))} |->
        IF r1.k # "ok" THEN r1 ELSE take_until_nl(s, skip(s, r1.p))])

\* fn comment: many1(comment_line) mapped to Comment { lines }
comment(s, i) ==
    With([r \in {many1("comment_line", s, i)} |-> map(r, [lines |-> r.v])])

\* preceded(spaced(char(':')), spaced(typ)) of fn field
field_type(s, i) ==
    With([c \in {trail(char(":", s, skip(s, i)), s)} |->
        IF c.k # "ok" THEN c ELSE trail(typ(s, skip(s, c.p)), s)])

\* a field that commits to its type without a label of its own
field_unlabelled(s, i) ==
    With([r0 \in {opt(comment(s, i), i)} |->
        IF r0.k # "ok" THEN r0
        ELSE With([r2 \in {trail(id(s, skip(s, skip(s, r0.p))), s)} |->
                IF r2.k # "ok" THEN r2
                ELSE With([r4 \in {trail(cut(field_type(s, skip(s, r2.p))), s)} |->
                        map(r4, [comment |-> r0.v, name |-> r2.v, typ |-> r4.v])])])])

\* fn field
field(s, i) ==
    With([r0 \in {opt(comment(s, i), i)} |->
        IF r0.k # "ok" THEN r0
        ELSE With([r2 \in {trail(id(s, skip(s, skip(s, r0.p))), s)} |->
                IF r2.k # "ok" THEN r2
                ELSE With([r4 \in {trail(context("field",
                                            cut(field_type(s, skip(s, r2.p)))), s)} |->
                        map(r4, [comment |-> r0.v, name |-> r2.v, typ |-> r4.v])])])])

\* fn fields
\* a field list that takes no comma after its last field
fields_strict(s, i) == separated_list("comma", "field", s, i)

fields(s, i) ==
    With([r1 \in {separated_list("comma", "field", s, i)} |->
        IF r1.k # "ok" THEN r1
        ELSE map(opt(trail(char(",", s, skip(s, r1.p)), s), r1.p), r1.v)])

\* fn fnmod
fnmod(s, i) ==
    alt(map(tag(kw_server, s, i), "Server"), map(tag(kw_client, s, i), "Client"))

\* fn fnmods: preceded(sp, separated_list(sp, fnmod))
fnmods(s, i) == separated_list("sp", "fnmod", s, skip(s, i))

\* delimited(char(open), fields, preceded(sp, char(close)))
delimited_fields(open, close, s, i) ==
    With([r1 \in {char(open, s, i)} |->
        IF r1.k # "ok" THEN r1
        ELSE With([r2 \in {fields(s, r1.p)} |->
                IF r2.k # "ok" THEN r2
                ELSE map(char(close, s, skip(s, r2.p)), r2.v)])])

\* fn results
results(s, i) ==
    With([r1 \in {trail(tag(kw_arrow, s, skip(s, i)), s)} |->
        IF r1.k # "ok" THEN r1
        ELSE context("result list", cut(delimited_fields("(", ")", s, r1.p)))])

\* the part fndecl and notifdecl run before their cut: comment, modifiers,
\* keyword, loc
fn_head(kw, s, i) ==
    With([r0 \in {opt(comment(s, i), i)} |->
        IF r0.k # "ok" THEN r0
        ELSE With([r1 \in {fnmods(s, r0.p)} |->
                IF r1.k # "ok" THEN r1
                ELSE With([r2 \in {trail(tag(kw, s, skip(s, r1.p)), s)} |->
                        IF r2.k # "ok" THEN r2
                        ELSE Ok(skip(s, r2.p),
                                [comment |-> r0.v, modifiers |-> Range(r1.v)])])])])

\* tuple((preceded(sp, id), preceded(sp, context("parameter list", delimited(..)))))
fn_name_params(s, i) ==
    With([r1 \in {id(s, skip(s, i))} |->
        IF r1.k # "ok" THEN r1
        ELSE With([r2 \in {context("parameter list",
                              delimited_fields("(", ")", s, skip(s, r1.p)))} |->
                map(r2, [name |-> r1.v, params |-> r2.v])])])

\* the tuple of fndecl: name, parameter list, opt(results)
fn_tuple(s, i) ==
    With([np \in {fn_name_params(s, i)} |->
        IF np.k # "ok" THEN np
        ELSE With([rs \in {opt(results(s, np.p), np.p)} |->
                map(rs, [name |-> np.v.name, params |-> np.v.params,
                         results |-> rs.v])])])

\* a function declaration that may still be backtracked out of after `fn`
fndecl_backtracking(s, i) ==
    With([h \in {fn_head(kw_fn, s, i)} |->
        IF h.k # "ok" THEN h
        ELSE With([t \in {fn_tuple(s, h.p)} |->
                context("function declaration",
                    map(t, [comment   |-> h.v.comment,
                            modifiers |-> h.v.modifiers,
                            name      |-> t.v.name,
                            params    |-> t.v.params,
                            results   |-> IF t.v.results.some
                                          THEN t.v.results.v ELSE <<>>]))])])

\* fn fndecl
fndecl(s, i) ==
    With([h \in {fn_head(kw_fn, s, i)} |->
        IF h.k # "ok" THEN h
        ELSE With([t \in {fn_tuple(s, h.p)} |->
                context("function declaration",
                    cut(map(t, [comment   |-> h.v.comment,
                                modifiers |-> h.v.modifiers,
                                name      |-> t.v.name,
                                params    |-> t.v.params,
                                results   |-> IF t.v.results.some
                                              THEN t.v.results.v ELSE <<>>])))])])

\* a notification declaration that keeps the modifiers as written
notifdecl_unmarked(s, i) ==
    With([h \in {fn_head(kw_nf, s, i)} |->
        IF h.k # "ok" THEN h
        ELSE With([np \in {fn_name_params(s, h.p)} |->
                context("notification declaration",
                    cut(map(np, [comment   |-> h.v.comment,
                                 modifiers |-> h.v.modifiers,
                                 name      |-> np.v.name,
                                 params    |-> np.v.params,
                                 results   |-> <<>>])))])])

\* a notification declaration that parses a result list and drops it
notifdecl_with_results(s, i) ==
    With([h \in {fn_head(kw_nf, s, i)} |->
        IF h.k # "ok" THEN h
        ELSE With([t \in {fn_tuple(s, h.p)} |->
                context("notification declaration",
                    cut(map(t, [comment   |-> h.v.comment,
                                modifiers |-> h.v.modifiers \cup {"Notification"},
                                name      |-> t.v.name,
                                params    |-> t.v.params,
                                results   |-> <<>>])))])])

\* fn notifdecl
notifdecl(s, i) ==
    With([h \in {fn_head(kw_nf, s, i)} |->
        IF h.k # "ok" THEN h
        ELSE With([np \in {fn_name_params(s, h.p)} |->
                context("notification declaration",
                    cut(map(np, [comment   |-> h.v.comment,
                                 modifiers |-> h.v.modifiers \cup {"Notification"},
                                 name      |-> np.v.name,
                                 params    |-> np.v.params,
                                 results   |-> <<>>])))])])

\* the tuple of structdecl: name, fields in braces
struct_tuple(s, i) ==
    With([n \in {id(s, skip(s, i))} |->
        IF n.k # "ok" THEN n
        ELSE With([fs \in {delimited_fields("{", "}", s, skip(s, n.p))} |->
                map(fs, [name |-> n.v, fields |-> fs.v])])])

\* fn structdecl
structdecl(s, i) ==
    With([r0 \in {opt(comment(s, i), i)} |->
        IF r0.k # "ok" THEN r0
        ELSE With([r1 \in {tag(kw_struct, s, skip(s, r0.p))} |->
                IF r1.k # "ok" THEN r1
                ELSE With([t \in {struct_tuple(s, skip(s, r1.p))} |->
                        context("struct declaration",
                            cut(map(t, [comment |-> r0.v, name |-> t.v.name,
                                        fields |-> t.v.fields])))])])])

RECURSIVE nsdecl(_, _)

\* one alternative of nsitem: map(decl, NamespaceItem::<item>)
ns_item(item, r) == map(r, [item |-> item, decl |-> r.v])

\* fn nsitem
nsitem(s, i) ==
    alt(ns_item("Function", fndecl(s, i)),
        alt(ns_item("Function", notifdecl(s, i)),
            alt(ns_item("Struct", structdecl(s, i)),
                ns_item("Namespace", nsdecl(s, i)))))

\* fn nsbody: terminated(many0(spaced(nsitem)), spaced(many0(comment_line)))
nsbody(s, i) ==
    With([r1 \in {many0("spaced_nsitem", s, i, <<>>)} |->
        IF r1.k # "ok" THEN r1
        ELSE map(trail(many0("comment_line", s, skip(s, r1.p), <<>>), s), r1.v)])

\* the tuple of nsdecl: spaced(id), delimited(spaced('{'), nsbody, spaced('}'))
ns_tuple(s, i) ==
    With([n \in {trail(id(s, skip(s, i)), s)} |->
        IF n.k # "ok" THEN n
        ELSE With([o \in {trail(char("{", s, skip(s, n.p)), s)} |->
                IF o.k # "ok" THEN o
                ELSE With([b \in {nsbody(s, o.p)} |->
                        IF b.k # "ok" THEN b
                        ELSE map(trail(char("}", s, skip(s, b.p)), s),
                                 [name |-> n.v, items |-> b.v])])])])

\* fn nsdecl
nsdecl(s, i) ==
    With([r0 \in {opt(comment(s, i), i)} |->
        IF r0.k # "ok" THEN r0
        ELSE With([r1 \in {trail(tag(kw_namespace, s, skip(s, r0.p)), s)} |->
                IF r1.k # "ok" THEN r1
                ELSE With([t \in {ns_tuple(s, skip(s, r1.p))} |->
                        context("namespace declaration",
                            cut(map(t, [comment |-> r0.v, name |-> t.v.name,
                                        items |-> t.v.items])))])])])

\* nom::combinator::all_consuming
all_consuming(r, s) ==
    IF r.k # "ok" THEN r
    ELSE IF r.p = Len(s) + 1 THEN r
    ELSE Error(r.p)

\* the parser inside all_consuming in fn module
module_body(s, i) ==
    With([r1 \in {many0("spaced_nsdecl", s, i, <<>>)} |->
        IF r1.k # "ok" THEN r1
        ELSE map(trail(many0("spaced_comment_line", s, skip(s, r1.p), <<>>), s),
                 [namespaces |-> r1.v])])

\* fn module
\* a module parse that stops where the namespaces stop
module_prefix(s) == module_body(s, 1)

module(s) == all_consuming(module_body(s, 1), s)

\* the parsers handed to many0, many1 and separated_list
Apply(f, s, i) ==
    CASE f = "comment_line"        -> comment_line(s, i)
      [] f = "spaced_comment_line" -> trail(comment_line(s, skip(s, i)), s)
      [] f = "spaced_nsitem"       -> trail(nsitem(s, skip(s, i)), s)
      [] f = "spaced_nsdecl"       -> trail(nsdecl(s, skip(s, i)), s)
      [] f = "field"               -> field(s, i)
      [] f = "comma"               -> trail(char(",", s, skip(s, i)), s)
      [] f = "fnmod"               -> fnmod(s, i)
      [] f = "sp"                  -> sp(s, i)

-----------------------------------------------------------------------------
(* The schema texts the parser is run on.  A text is written from a        *)
(* description (doc): the items of one namespace `n`, what follows its     *)
(* closing brace, the spacing, and an optional damage (a stray "!" put in   *)
(* front of a lexeme, or the text cut off there).  The description is what  *)
(* the parse is compared with.                                              *)

MaxFields == 2      \* fields in a parameter, result or struct field list
MaxItems == 2       \* items in the namespace body of the two-item texts

T_int32 == <<"i","n","t","3","2">>
T_Foo == <<"F","o","o">>
FieldTypes == {T_int32, T_Foo}
FieldNames == << <<"a">>, <<"b">>, <<"c">>, <<"d">> >>

Seqs(S, n) == UNION {[1..m -> S] : m \in 0..n}
\* a field list: the types of its fields, and whether a comma follows the last
FieldLists(n) ==
    {[tys |-> t, trailing |-> b] :
        t \in Seqs(FieldTypes, n), b \in BOOLEAN} \ {[tys |-> <<>>, trailing |-> TRUE]}
NoFields == [tys |-> <<>>, trailing |-> FALSE]
NoList == [absent |-> TRUE]

\* the lines in front of a declaration: comment lines and blank lines
CLine(t) == [blank |-> FALSE, text |-> t]
Blank == [blank |-> TRUE]
c1 == <<"c","1">>
c2 == <<"c","2">>
Leads ==
    { <<>>, <<CLine(c1)>>, <<CLine(c1), CLine(c2)>>,
      <<CLine(c1), Blank>>, <<CLine(c1), Blank, CLine(c2)>> }

FnItem(kw, mods, params, res, lead) ==
    [item |-> kw, mods |-> mods, name |-> IF kw = "fn" THEN <<"f">> ELSE <<"p">>,
     params |-> params, res |-> res, lead |-> lead]
StructItem(fs, lead) == [item |-> "struct", name |-> <<"S">>, fields |-> fs, lead |-> lead]
NsItem(lead) == [item |-> "namespace", name |-> <<"m">>, lead |-> lead]

ModLists == { <<>>, <<"Server">>, <<"Client">>, <<"Server", "Client">> }

\* every signature: keyword, modifiers, parameter list, optional result list
SigItems ==
    {FnItem(kw, m, p, r, <<>>) :
        kw \in {"fn", "nf"}, m \in ModLists, p \in FieldLists(MaxFields),
        r \in {NoList} \cup FieldLists(1)}
    \cup {StructItem(fs, <<>>) : fs \in FieldLists(MaxFields)}

\* every kind of declaration under every lead
LeadItems ==
    {FnItem(kw, <<>>, NoFields, NoList, l) : kw \in {"fn", "nf"}, l \in Leads}
    \cup {StructItem(NoFields, l) : l \in Leads}
    \cup {NsItem(l) : l \in Leads}

OneField(b) == [tys |-> <<T_int32>>, trailing |-> b]
\* the items of the texts with several items, and of the damaged texts
FewItems ==
    { FnItem("fn", <<>>, NoFields, NoList, <<>>),
      FnItem("fn", <<"Server">>, OneField(TRUE), OneField(TRUE), <<CLine(c1)>>),
      FnItem("nf", <<>>, OneField(FALSE), NoList, <<>>),
      StructItem(OneField(TRUE), <<>>),
      NsItem(<<>>) }

\* what follows the closing brace of the namespace
BlankTrailers == {"none", "ws", "comment", "comments", "namespace"}
JunkTrailers == {"id", "bang", "item", "brace", "comment_id", "namespace_id"}
Trailers == BlankTrailers \cup JunkTrailers \cup {"open_comment"}

NoDamage == [at |-> 0, how |-> "none"]
Doc(items, trailer, tight, damage) ==
    [items |-> items, trailer |-> trailer, tight |-> tight, damage |-> damage]

\* a lexeme: its text, and the constructs whose leading keyword stands before
\* it and which are not complete where it starts (outermost first)
Lx(t, open) == [t |-> t, open |-> open]

L_ns == "namespace declaration"
L_fn == "function declaration"
L_nf == "notification declaration"
L_struct == "struct declaration"
L_res == "result list"
KeywordLabels == {L_ns, L_fn, L_nf, L_struct, L_res}

RECURSIVE FieldsLex(_, _, _)
FieldsLex(tys, n, open) ==
    IF n > Len(tys) THEN <<>>
    ELSE (IF n > 1 THEN <<Lx(<<",">>, open)>> ELSE <<>>)
         \o <<Lx(FieldNames[n], open), Lx(<<":">>, open), Lx(tys[n], open)>>
         \o FieldsLex(tys, n + 1, open)

FieldListLex(l, r, fl, open) ==
    <<Lx(<<l>>, open)>> \o FieldsLex(fl.tys, 1, open)
    \o (IF fl.trailing THEN <<Lx(<<",">>, open)>> ELSE <<>>) \o <<Lx(<<r>>, open)>>

RECURSIVE LeadLex(_, _)
LeadLex(lead, open) ==
    IF lead = <<>> THEN <<>>
    ELSE <<Lx(IF Head(lead).blank THEN <<"\n">>
              ELSE kw_slashes \o Head(lead).text \o <<"\n">>, open)>>
         \o LeadLex(Tail(lead), open)

ModText(m) == IF m = "Server" THEN kw_server ELSE kw_client

ItemLex(it, open) ==
    LeadLex(it.lead, open) \o
    CASE it.item \in {"fn", "nf"} ->
           LET in == Append(open, IF it.item = "fn" THEN L_fn ELSE L_nf) IN
           [j \in 1..Len(it.mods) |-> Lx(ModText(it.mods[j]), open)]
           \o <<Lx(IF it.item = "fn" THEN kw_fn ELSE kw_nf, open), Lx(it.name, in)>>
           \o FieldListLex("(", ")", it.params, in)
           \o (IF it.res = NoList THEN <<>>
               ELSE <<Lx(kw_arrow, open)>>
                    \o FieldListLex("(", ")", it.res, Append(in, L_res)))
      [] it.item = "struct" ->
           LET in == Append(open, L_struct) IN
           <<Lx(kw_struct, open), Lx(it.name, in)>>
           \o FieldListLex("{", "}", it.fields, in)
      [] it.item = "namespace" ->
           LET in == Append(open, L_ns) IN
           <<Lx(kw_namespace, open), Lx(it.name, in), Lx(<<"{">>, in), Lx(<<"}">>, in)>>

RECURSIVE ItemsLex(_, _)
ItemsLex(items, open) ==
    IF items = <<>> THEN <<>>
    ELSE ItemLex(Head(items), open) \o ItemsLex(Tail(items), open)

TrailerLex(t) ==
    LET c == Lx(kw_slashes \o <<"t">> \o <<"\n">>, <<>>)
        x == Lx(<<"x">>, <<>>)
        m == ItemLex(NsItem(<<>>), <<>>)
    IN  CASE t = "none"         -> <<>>
          [] t = "ws"           -> <<Lx(<<"\n">>, <<>>)>>
          [] t = "comment"      -> <<c>>
          [] t = "comments"     -> <<c, Lx(<<"\n">>, <<>>), c>>
          [] t = "namespace"    -> m
          [] t = "id"           -> <<x>>
          [] t = "bang"         -> <<Lx(<<"!">>, <<>>)>>
          [] t = "item"         -> ItemLex(FnItem("fn", <<>>, NoFields, NoList, <<>>), <<>>)
          [] t = "brace"        -> <<Lx(<<"}">>, <<>>)>>
          [] t = "comment_id"   -> <<c, x>>
          [] t = "namespace_id" -> Append(m, x)
          [] t = "open_comment" -> <<Lx(kw_slashes \o <<"t">>, <<>>)>>

\* the lexemes of the text, before any damage
DocLex(d) ==
    <<Lx(kw_namespace, <<>>), Lx(<<"n">>, <<L_ns>>), Lx(<<"{">>, <<L_ns>>)>>
    \o ItemsLex(d.items, <<L_ns>>)
    \o <<Lx(<<"}">>, <<L_ns>>)>>
    \o TrailerLex(d.trailer)

\* the lexemes of the text as damaged
Damaged(d) ==
    LET ls == DocLex(d) IN
    IF d.damage.how = "none" THEN ls
    ELSE IF d.damage.how = "eof" THEN SubSeq(ls, 1, d.damage.at - 1)
    ELSE SubSeq(ls, 1, d.damage.at - 1) \o <<Lx(<<"!">>, <<>>)>>
         \o SubSeq(ls, d.damage.at, Len(ls))

\* what is written between two lexemes: a blank always, or (tight) only where
\* two identifier characters would otherwise run together
Sep(x, y, tight) ==
    IF ~tight THEN <<" ">>
    ELSE IF x[Len(x)] \in IdChars /\ y[1] \in IdChars THEN <<" ">> ELSE <<>>

RECURSIVE Flatten(_, _, _)
Flatten(ls, n, tight) ==
    IF n > Len(ls) THEN <<>>
    ELSE ls[n].t
         \o (IF n < Len(ls) THEN Sep(ls[n].t, ls[n + 1].t, tight) ELSE <<>>)
         \o Flatten(ls, n + 1, tight)

\* the schema text of a description
Render(d) == Flatten(Damaged(d), 1, d.tight)

MaxDamagedItems == 1    \* items in the namespace body of the damaged texts

DamagedDocs ==
    UNION { {Doc(items, "none", tight, [at |-> k, how |-> h]) :
                k \in 1..Len(DocLex(Doc(items, "none", tight, NoDamage))),
                h \in {"garbage", "eof"}} :
            items \in Seqs(FewItems, MaxDamagedItems), tight \in BOOLEAN }

Docs ==
    {Doc(<<it>>, "none", tight, NoDamage) :
        it \in SigItems \cup LeadItems, tight \in BOOLEAN}
    \cup {Doc(items, "none", FALSE, NoDamage) : items \in Seqs(FewItems, MaxItems)}
    \cup {Doc(items, t, tight, NoDamage) :
            items \in Seqs(FewItems, 1), t \in Trailers, tight \in BOOLEAN}
    \cup DamagedDocs

-----------------------------------------------------------------------------
(* The parser run: a schema text is read and handed to `module`             *)
(* (lavish/src/main.rs, fn check: parser::parse(source)).                   *)

Idle == <<>>

Init ==
    /\ doc \in Docs
    /\ src = Render(doc)
    /\ pc = "ready"
    /\ result = None
    /\ schema = Idle /\ side = "none" /\ gpc = "idle"
    /\ ir = Idle /\ protocol = Idle /\ handler = Idle
    /\ RuntimeIdle /\ CompilerIdle

\* parser::parse: the whole text goes through `module`
Parse ==
    /\ pc = "ready"
    /\ result' = module(src)
    /\ pc' = "parsed"
    /\ UNCHANGED <<doc, src, codegenVars, runtimeVars, compilerVars>>

Next == Parse

Spec == Init /\ [][Next]_vars

-----------------------------------------------------------------------------
(* What the description says of the text, and what the parse says *)

Reverse(q) == [j \in 1..Len(q) |-> q[Len(q) + 1 - j]]

Undamaged == doc.damage.how = "none"
\* the constructs open where the damage was done (outermost first)
DamageOpen == DocLex(doc)[doc.damage.at].open
\* the labels of keyword-led constructs a failure reports, outermost first
KeywordCtx(ctx) == Reverse(SelectSeq(ctx, LAMBDA l : l \in KeywordLabels))

\* the items the parse gives namespace `n`
ParsedItems == result.v.namespaces[1].items
CommentLines(c) == IF c.some THEN c.v.lines ELSE <<>>

IsFunctionItem(it) == it.item \in {"fn", "nf"}
FieldListsOf(it) ==
    IF IsFunctionItem(it) THEN {it.params} \cup ({it.res} \ {NoList})
    ELSE IF it.item = "struct" THEN {it.fields} ELSE {}
HasTrailing(d) ==
    \E j \in 1..Len(d.items) : \E fl \in FieldListsOf(d.items[j]) : fl.trailing
NoTrailing(fl) == IF fl = NoList THEN fl ELSE [fl EXCEPT !.trailing = FALSE]
PlainItem(it) ==
    IF IsFunctionItem(it)
    THEN [it EXCEPT !.params = NoTrailing(@), !.res = NoTrailing(@)]
    ELSE IF it.item = "struct" THEN [it EXCEPT !.fields = NoTrailing(@)] ELSE it
\* the description with every trailing comma taken out
Plain(d) == [d EXCEPT !.items = [j \in 1..Len(d.items) |-> PlainItem(d.items[j])]]

NfWithResults(d) ==
    \E j \in 1..Len(d.items) : d.items[j].item = "nf" /\ d.items[j].res # NoList

\* the comment lines of a lead that stand before a blank line of the lead
LinesBeforeBlank(lead) ==
    {lead[a].text : a \in {a \in 1..Len(lead) :
        ~lead[a].blank /\ \E b \in (a + 1)..Len(lead) : lead[b].blank}}

-----------------------------------------------------------------------------
(* C4: once the leading keyword of a construct has matched (namespace, fn,  *)
(* nf, struct, or the -> of a result list), a failure to complete the       *)
(* construct is a fatal nom Failure of the whole module parse, reported     *)
(* for exactly the constructs that were open: nothing backtracks out of a   *)
(* construct whose keyword matched.                                         *)
C4_CommittedFailureIsFatal ==
    (pc = "parsed" /\ ~Undamaged /\ DamageOpen # <<>>)
        => (result.k = "fail" /\ KeywordCtx(result.ctx) = DamageOpen)

\* a text cut off or damaged inside the result list of a function
C4_Witness ==
    /\ pc = "parsed" /\ ~Undamaged
    /\ DamageOpen = <<L_ns, L_fn, L_res>>
    /\ result.k = "fail"

C6_NotificationIffNf ==
    (pc = "parsed" /\ result.k = "ok" /\ result.v.namespaces # <<>>) =>
        /\ Len(ParsedItems) = Len(doc.items)
        /\ \A j \in 1..Len(doc.items) :
              IsFunctionItem(doc.items[j]) =>
                 /\ ParsedItems[j].item = "Function"
                 /\ ("Notification" \in ParsedItems[j].decl.modifiers)
                        <=> (doc.items[j].item = "nf")
                 /\ ("Notification" \in ParsedItems[j].decl.modifiers)
                        => (ParsedItems[j].decl.results = <<>>)

\* a parsed namespace holding a notification with a parameter and a function
\* with a result
C6_Witness ==
    /\ pc = "parsed" /\ result.k = "ok" /\ Len(doc.items) = 2
    /\ doc.items[1].item = "nf" /\ doc.items[2].item = "fn"
    /\ "Notification" \in ParsedItems[1].decl.modifiers
    /\ ParsedItems[1].decl.params # <<>>
    /\ ParsedItems[2].decl.results # <<>>

(* C7, as claimed: a notification followed by a result list is accepted,    *)
(* the result text parsed and ignored, the FunctionDecl's results empty.    *)
C7_NotificationResultsAccepted ==
    (pc = "parsed" /\ Undamaged /\ doc.trailer = "none" /\ NfWithResults(doc))
        => /\ result.k = "ok"
           /\ \A j \in 1..Len(doc.items) : ParsedItems[j].decl.results = <<>>

(* C7, amended: a notification followed by a result list is rejected:       *)
(* notifdecl parses no result list, the -> is left unconsumed, and the      *)
(* enclosing namespace declaration fails fatally at it.                     *)
C7_NotificationResultsRejected ==
    (pc = "parsed" /\ Undamaged /\ doc.trailer = "none" /\ NfWithResults(doc))
        => /\ result.k = "fail"
           /\ result.ctx = <<L_ns>>
           /\ SubSeq(src, result.p, result.p + 1) = kw_arrow

C7_Witness ==
    /\ pc = "parsed" /\ Undamaged /\ doc.trailer = "none" /\ Len(doc.items) = 1
    /\ doc.items[1].item = "nf"
    /\ doc.items[1].params.tys = <<T_int32>>
    /\ doc.items[1].res # NoList /\ doc.items[1].res.tys = <<T_int32>>
    /\ result.k = "fail"

(* C8: a trailing comma after the last field of a non-empty parameter,      *)
(* result or struct field list changes nothing: the text parses to the      *)
(* same declarations as the text without it.                                *)
C8_TrailingCommaIgnored ==
    (pc = "parsed" /\ Undamaged /\ HasTrailing(doc)) =>
        \A plain \in {module(Render(Plain(doc)))} :
            plain.k = "ok" => (result.k = "ok" /\ result.v = plain.v)

\* a parsed function with a trailing comma in its parameters and its results,
\* beside a struct with one in its fields
C8_Witness ==
    /\ pc = "parsed" /\ Undamaged /\ result.k = "ok" /\ Len(doc.items) = 2
    /\ doc.items[1].item = "fn"
    /\ doc.items[1].params.trailing
    /\ doc.items[1].res # NoList /\ doc.items[1].res.trailing
    /\ doc.items[2].item = "struct" /\ doc.items[2].fields.trailing
    /\ Len(ParsedItems[1].decl.params) = 1
    /\ Len(ParsedItems[2].decl.fields) = 1

(* C9: comment lines attach to a declaration only when no blank line        *)
(* separates them from it: the lines standing before a blank line are not   *)
(* part of the declaration's Comment.                                       *)
C9_BlankLineBreaksAttachment ==
    (pc = "parsed" /\ result.k = "ok" /\ result.v.namespaces # <<>>) =>
        \A j \in 1..Len(doc.items) :
            LinesBeforeBlank(doc.items[j].lead)
                \cap Range(CommentLines(ParsedItems[j].decl.comment)) = {}

-----------------------------------------------------------------------------
(* Strings of the code generators: sequences of one-character strings       *)

IndexIn(c, q) == CHOOSE j \in 1..Len(q) : q[j] = c
\* char::to_lowercase / char::to_uppercase on the identifier characters
ToLower(c) == IF c \in Upper THEN LowerSeq[IndexIn(c, UpperSeq)] ELSE c
ToUpper(c) == IF c \in Lower THEN UpperSeq[IndexIn(c, LowerSeq)] ELSE c
\* str::to_lowercase
to_lowercase(s) == [j \in 1..Len(s) |-> ToLower(s[j])]

RECURSIVE join(_, _)
\* [String]::join(sep)
join(parts, sep) ==
    IF parts = <<>> THEN <<>>
    ELSE IF Len(parts) = 1 THEN parts[1]
    ELSE parts[1] \o sep \o join(Tail(parts), sep)

RECURSIVE replace(_, _, _)
\* str::replace(from, to) for a one-character pattern
replace(s, from, to) ==
    IF s = <<>> THEN <<>>
    ELSE (IF Head(s) = from THEN to ELSE <<Head(s)>>) \o replace(Tail(s), from, to)

RECURSIVE split(_, _, _)
\* str::split(c): the pieces between the occurrences of c; cur is the piece
\* being collected
split(s, c, cur) ==
    IF s = <<>> THEN <<cur>>
    ELSE IF Head(s) = c THEN <<cur>> \o split(Tail(s), c, <<>>)
    ELSE split(Tail(s), c, Append(cur, Head(s)))

RECURSIVE repeat(_, _)
\* str::repeat(n)
repeat(s, n) == IF n = 0 THEN <<>> ELSE s \o repeat(s, n - 1)

Dot == <<".">>
Underscore == <<"_">>
DoubleUnderscore == <<"_", "_">>
PathSep == <<":", ":">>
SuperPath == <<"s","u","p","e","r",":",":">>
RootName == <<"<","r","o","o","t",">">>

\* heck: capitalize(word): first character upper case, the rest lower case
capitalize(w) ==
    [j \in 1..Len(w) |-> IF j = 1 THEN ToUpper(w[j]) ELSE ToLower(w[j])]

RECURSIVE camel_scan(_, _, _, _, _)
\* heck: transform(s, capitalize, no boundary) on one identifier. i is the
\* character looked at, init the start of the word being collected, mode the
\* case of the characters seen since the last boundary.
camel_scan(w, i, init, mode, out) ==
    IF i > Len(w) THEN out
    ELSE IF w[i] = "_"
        THEN camel_scan(w, i + 1, IF init = i THEN init + 1 ELSE init, mode, out)
    ELSE IF i = Len(w) THEN out \o capitalize(SubSeq(w, init, Len(w)))
    ELSE With([next_mode \in {IF w[i] \in Lower THEN "Lowercase"
                              ELSE IF w[i] \in Upper THEN "Uppercase"
                              ELSE mode} |->
            IF w[i + 1] = "_" \/ (next_mode = "Lowercase" /\ w[i + 1] \in Upper)
            THEN camel_scan(w, i + 1, i + 1, "Boundary",
                            out \o capitalize(SubSeq(w, init, i)))
            ELSE IF mode = "Uppercase" /\ w[i] \in Upper /\ w[i + 1] \in Lower
            THEN camel_scan(w, i + 1, i, "Boundary",
                            out \o capitalize(SubSeq(w, init, i - 1)))
            ELSE camel_scan(w, i + 1, init, next_mode, out)])

\* heck::CamelCase::to_camel_case
to_camel_case(w) == camel_scan(w, 1, 1, "Boundary", <<>>)

-----------------------------------------------------------------------------
(* The IR builder (lavish/src/codegen/rust/ir.rs)                           *)
(*                                                                         *)
(* The checked AST: a NamespaceBody is [functions, structs, namespaces], a  *)
(* NamespaceDecl [name, body], a FunctionDecl [name, side, modifiers, body] *)
(* with body None or Some(NamespaceBody), a StructDecl [name].              *)
(* An IndexMap is the sequence of its [key, value] entries in insertion     *)
(* order.                                                                   *)

\* IndexMap::insert: a new key is appended, a known key keeps its place and
\* gets the new value
insert(m, key, value) ==
    IF \E j \in 1..Len(m) : m[j].key = key
    THEN [j \in 1..Len(m) |-> IF m[j].key = key THEN [key |-> key, value |-> value] ELSE m[j]]
    ELSE Append(m, [key |-> key, value |-> value])
\* IndexMap::values
values(m) == [j \in 1..Len(m) |-> m[j].value]

Stru_new(decl, full_name) == [decl |-> decl, full_name |-> full_name]

RECURSIVE Namespace_new(_, _, _)
RECURSIVE Fun_new(_, _)
RECURSIVE insert_funs(_, _, _)
RECURSIVE insert_strus(_, _, _)
RECURSIVE insert_children(_, _, _)

RECURSIVE insert_funs_growing(_, _, _)
\* a builder that forgets to drop a function's name from the prefix before
\* it goes on to the next sibling
insert_funs_growing(prefix, decls, funs) ==
    IF decls = <<>> THEN funs
    ELSE insert_funs_growing(prefix \o Head(decls).name \o Dot, Tail(decls),
                     insert(funs, Head(decls).name, Fun_new(prefix, Head(decls))))

\* Namespace::new, `for decl in &decl.functions`
insert_funs(prefix, decls, funs) ==
    IF decls = <<>> THEN funs
    ELSE insert_funs(prefix, Tail(decls),
                     insert(funs, Head(decls).name, Fun_new(prefix, Head(decls))))

\* Namespace::new, `for decl in &decl.structs`
insert_strus(prefix, decls, strus) ==
    IF decls = <<>> THEN strus
    ELSE insert_strus(prefix, Tail(decls),
                      insert(strus, Head(decls).name,
                             Stru_new(Head(decls), prefix \o Head(decls).name)))

\* Namespace::new, `for decl in &decl.namespaces`
insert_children(prefix, decls, children) ==
    IF decls = <<>> THEN children
    ELSE insert_children(prefix, Tail(decls),
                         insert(children, Head(decls).name,
                                Namespace_new(prefix, Head(decls).name, Head(decls).body)))

\* Namespace::new
Namespace_new(prefix0, name, decl) ==
    With([prefix \in {IF name = RootName THEN <<>> ELSE prefix0 \o name \o Dot} |->
        [name     |-> name,
         children |-> insert_children(prefix, decl.namespaces, <<>>),
         funs     |-> insert_funs(prefix, decl.functions, <<>>),
         strus    |-> insert_strus(prefix, decl.structs, <<>>)]])

\* Fun::new
Fun_new(prefix, decl) ==
    [decl   |-> decl,
     tokens |-> split(prefix \o decl.name, ".", <<>>),
     body   |-> IF decl.body.some
                THEN Some(Namespace_new(prefix, decl.name, decl.body.v))
                ELSE None]

\* Fun::rpc_name
rpc_name(fun) == join(fun.tokens, Dot)
\* Fun::variant
Fun_variant(fun) == to_lowercase(replace(rpc_name(fun), ".", DoubleUnderscore))
\* Fun::qualified_name
Fun_qualified_name(fun) == join(fun.tokens, PathSep)
\* Fun::is_notification
is_notification(fun) == "Notification" \in fun.decl.modifiers
\* a kind that takes every function for a request
Fun_kind_request(fun) == "Request"
\* Fun::kind
Fun_kind(fun) == IF is_notification(fun) THEN "Notification" ELSE "Request"

RECURSIVE Namespace_funs(_)
RECURSIVE Fun_funs(_)
RECURSIVE flatten_children(_)
RECURSIVE flatten_funs(_)

\* children.values().map(Namespace::funs).flatten()
flatten_children(nss) ==
    IF nss = <<>> THEN <<>>
    ELSE Namespace_funs(Head(nss)) \o flatten_children(Tail(nss))

\* funs.values().map(|f| f.funs()).flatten()
flatten_funs(fs) ==
    IF fs = <<>> THEN <<>>
    ELSE Fun_funs(Head(fs)) \o flatten_funs(Tail(fs))

\* Namespace::funs
Namespace_funs(ns) ==
    flatten_children(values(ns.children)) \o flatten_funs(values(ns.funs))

\* a traversal that yields a function after the functions of its body
Fun_funs_body_first(fun) ==
    IF fun.body.some THEN Namespace_funs(fun.body.v) \o <<fun>> ELSE <<fun>>

\* Fun::funs
Fun_funs(fun) ==
    IF fun.body.some THEN <<fun>> \o Namespace_funs(fun.body.v) ELSE <<fun>>

\* FunStruct::qualified_type, for kind "Params" or "Results"
qualified_type(fun, kind) == Fun_qualified_name(fun) \o PathSep \o kind

Str_Params == <<"P","a","r","a","m","s">>
Str_Results == <<"R","e","s","u","l","t","s">>
Str_NotificationParams == <<"N","o","t","i","f","i","c","a","t","i","o","n">> \o Str_Params

\* Atom::funs
Atom_funs(funs, kind) == SelectSeq(funs, LAMBDA f : Fun_kind(f) = kind)
\* Atom::root
Atom_root(depth) == repeat(SuperPath, depth)

\* Display for Atom: the cases of the enum and the arms of `method`, in the
\* order they are written
Atom(funs, name, kind, depth) ==
    With([fs \in {Atom_funs(funs, kind)} |->
        [name   |-> name,
         cases  |-> [j \in 1..Len(fs) |->
                        [variant |-> Fun_variant(fs[j]),
                         typ     |-> Atom_root(depth) \o Fun_qualified_name(fs[j])
                                        \o PathSep \o name]],
         method |-> [j \in 1..Len(fs) |->
                        [variant  |-> Fun_variant(fs[j]),
                         rpc_name |-> rpc_name(fs[j])]]]])

\* Display for Protocol: the three Atoms, one scope deeper than the Protocol
Protocol(funs, depth) ==
    << Atom(funs, Str_Params, "Request", depth + 1),
       Atom(funs, Str_Results, "Request", depth + 1),
       Atom(funs, Str_NotificationParams, "Notification", depth + 1) >>

\* what the written `method` returns for a value of the case `variant`: the
\* first arm of the match that names the case
method_lookup(atom, variant) ==
    atom.method[CHOOSE j \in 1..Len(atom.method) :
                    /\ atom.method[j].variant = variant
                    /\ \A h \in 1..(j - 1) : atom.method[h].variant # variant].rpc_name

-----------------------------------------------------------------------------
(* The naming layer (src/ast/anchored.rs) and the handler generator         *)
(* (src/codegen/rust/ir/handler.rs).  A Stack is the sequence of its        *)
(* frames, a frame [kind, name]; an Anchored value is [inner, stack].  A    *)
(* traversal is the sequence of the values its callback is called with.     *)

Stack_new == <<>>
\* Stack::push
push(stack, kind, decl) == Append(stack, [kind |-> kind, name |-> decl.name])
\* Stack::anchor
anchor(stack, inner) == [inner |-> inner, stack |-> stack]
\* Stack::names
Stack_names(stack) == [j \in 1..Len(stack) |-> stack[j].name]
\* Stack::root
Stack_root(stack) == repeat(SuperPath, Len(stack) + 1)
\* Stack::protocol
Stack_protocol(stack) == Stack_root(stack) \o <<"p","r","o","t","o","c","o","l">>

\* Anchored<&NamespaceBody>::for_each_fun
for_each_fun(a) ==
    [j \in 1..Len(a.inner.functions) |-> anchor(a.stack, a.inner.functions[j])]
\* Anchored<&NamespaceBody>::for_each_namespace
for_each_namespace(a) ==
    [j \in 1..Len(a.inner.namespaces) |->
        anchor(push(a.stack, "Namespace", a.inner.namespaces[j]),
               a.inner.namespaces[j].body)]

RECURSIVE for_each_fun_of_interface(_)
RECURSIVE interface_of_namespaces(_)
\* for_each_namespace(&mut |ns| ns.for_each_fun_of_interface(cb))
interface_of_namespaces(nss) ==
    IF nss = <<>> THEN <<>>
    ELSE for_each_fun_of_interface(Head(nss)) \o interface_of_namespaces(Tail(nss))
\* Anchored<&NamespaceBody>::for_each_fun_of_interface
for_each_fun_of_interface(a) ==
    for_each_fun(a) \o interface_of_namespaces(for_each_namespace(a))

RECURSIVE for_each_fun_of_schema(_)
RECURSIVE schema_of_funs(_)
RECURSIVE schema_of_namespaces(_)
\* Anchored<&FunctionDecl>::for_each_fun_of_schema
fun_for_each_fun_of_schema(f) ==
    IF f.inner.body.some
    THEN for_each_fun_of_schema(anchor(push(f.stack, "Function", f.inner), f.inner.body.v))
    ELSE <<>>
\* for_each_fun(&mut |f| { f.for_each_fun_of_schema(cb); cb(f); })
schema_of_funs(fs) ==
    IF fs = <<>> THEN <<>>
    ELSE fun_for_each_fun_of_schema(Head(fs)) \o <<Head(fs)>> \o schema_of_funs(Tail(fs))
\* for_each_namespace(&mut |ns| ns.for_each_fun_of_schema(cb))
schema_of_namespaces(nss) ==
    IF nss = <<>> THEN <<>>
    ELSE for_each_fun_of_schema(Head(nss)) \o schema_of_namespaces(Tail(nss))
\* Anchored<&NamespaceBody>::for_each_fun_of_schema
for_each_fun_of_schema(a) ==
    schema_of_funs(for_each_fun(a)) \o schema_of_namespaces(for_each_namespace(a))

\* Anchored<&FunctionDecl>::names
names(f) == Append(Stack_names(f.stack), f.inner.name)
\* Anchored<&FunctionDecl>::variant
variant(f) ==
    join([j \in 1..Len(names(f)) |-> to_camel_case(names(f)[j])], Underscore)
\* Anchored<&FunctionDecl>::module
module_path(f) == join(names(f), PathSep)
\* Anchored<&FunctionDecl>::method
method(f) == join(names(f), Dot)
\* Anchored<&FunctionDecl>::qualified_name
qualified_name(f) == join(names(f), DoubleUnderscore)

\* filter_fun_side
filter_fun_side(sd, fs) == SelectSeq(fs, LAMBDA f : f.inner.side = sd)
\* Handler::for_each_fun
Handler_for_each_fun(sd, body) == filter_fun_side(sd, for_each_fun_of_interface(body))

Str_on == <<"o","n","_">>
\* Handler::write_on_body: the slot assigned, the Params case matched and
\* the Results case the callback's result is wrapped in
write_on_body(body, f) ==
    [slot     |-> Str_on \o qualified_name(f),
     protocol |-> Stack_protocol(body.stack),
     params   |-> variant(f),
     results  |-> variant(f)]

\* Handler::define_handler: the slot fields of the struct, then the `on_`
\* functions of the impl
define_handler(sd, body) ==
    With([fs \in {Handler_for_each_fun(sd, body)} |->
        [side  |-> sd,
         slots |-> [j \in 1..Len(fs) |-> Str_on \o qualified_name(fs[j])],
         ons   |-> [j \in 1..Len(fs) |-> write_on_body(body, fs[j])]]])

-----------------------------------------------------------------------------
(* The checked schemas of the code generation runs                          *)

MaxDecls == 3       \* declarations (functions, structs, namespaces) in a schema
MaxDepth == 2       \* bodies nested below the root body

N_add == <<"a","d","d">>
N_Add == <<"A","d","d">>
N_b__c == <<"b","_","_","c">>
N_c == <<"c">>
N_ping == <<"p","i","n","g">>
N_b == <<"b">>
N_S == <<"S">>

\* the function declarations a schema is made of, without their bodies
FunCatalogue ==
    { [name |-> N_add,  side |-> "Server", modifiers |-> {"Server"}],
      [name |-> N_Add,  side |-> "Client", modifiers |-> {"Client"}],
      [name |-> N_b__c, side |-> "Server", modifiers |-> {"Server"}],
      [name |-> N_c,    side |-> "Server", modifiers |-> {"Server"}],
      [name |-> N_ping, side |-> "Client", modifiers |-> {"Client", "Notification"}] }
NsNames == {N_c, N_b}
StructCatalogue == {[name |-> N_S]}
Sides == {"Server", "Client"}

FunctionDecl(c, body) ==
    [name |-> c.name, side |-> c.side, modifiers |-> c.modifiers, body |-> body]

RECURSIVE Bodies(_, _)
RECURSIVE FunSeqs(_, _)
RECURSIVE NsSeqs(_, _)

\* the functions that, with their bodies, are n declarations
FunItems(n, d) ==
    IF n = 1 THEN {FunctionDecl(c, None) : c \in FunCatalogue}
    ELSE IF d = 0 THEN {}
    ELSE {FunctionDecl(c, Some(b)) : c \in FunCatalogue, b \in Bodies(n - 1, d - 1)}

\* the namespaces that, with their bodies, are n declarations
NsItems(n, d) ==
    IF d = 0 THEN {}
    ELSE {[name |-> nm, body |-> b] : nm \in NsNames, b \in Bodies(n - 1, d - 1)}

\* the function lists of k declarations in all, names unique among siblings
FunSeqs(k, d) ==
    IF k = 0 THEN {<<>>}
    ELSE UNION { UNION { {<<f>> \o rest :
                            rest \in {r \in FunSeqs(k - j, d) :
                                        \A h \in 1..Len(r) : r[h].name # f.name}} :
                         f \in FunItems(j, d)} :
                 j \in 1..k }

\* the namespace lists of k declarations in all, names unique among siblings
NsSeqs(k, d) ==
    IF k = 0 THEN {<<>>}
    ELSE UNION { UNION { {<<ns>> \o rest :
                            rest \in {r \in NsSeqs(k - j, d) :
                                        \A h \in 1..Len(r) : r[h].name # ns.name}} :
                         ns \in NsItems(j, d)} :
                 j \in 1..k }

StructSeqs(k) ==
    IF k = 0 THEN {<<>>} ELSE IF k = 1 THEN {<<st>> : st \in StructCatalogue} ELSE {}

\* the NamespaceBodies of n declarations in all, nested at most d deep
Bodies(n, d) ==
    UNION { UNION { {[functions |-> fs, structs |-> ss, namespaces |-> nss] :
                        fs \in FunSeqs(k, d), ss \in StructSeqs(m),
                        nss \in NsSeqs(n - k - m, d)} :
                    m \in 0..(IF n - k >= 1 THEN 1 ELSE 0) } :
            k \in 0..n }

\* a function with a body beside a namespace of the function's name, each
\* with one function
ScopeClashes ==
    {[functions  |-> <<FunctionDecl(c, Some([functions |-> <<f>>, structs |-> <<>>,
                                             namespaces |-> <<>>]))>>,
      structs    |-> <<>>,
      namespaces |-> <<[name |-> c.name,
                        body |-> [functions |-> <<g>>, structs |-> <<>>,
                                  namespaces |-> <<>>]]>>] :
        c \in {x \in FunCatalogue : x.name \in NsNames},
        f \in FunItems(1, 0), g \in FunItems(1, 0)}

Schemas == UNION {Bodies(n, MaxDepth) : n \in 0..MaxDecls} \cup ScopeClashes

-----------------------------------------------------------------------------
(* The code generation run on a checked schema: the IR is built once, then  *)
(* the protocol and the handler of one side are written from it.            *)

GenInit ==
    /\ schema \in Schemas
    /\ gpc = "checked"
    /\ side = "none"
    /\ ir = Idle /\ protocol = Idle /\ handler = Idle
    /\ doc = Idle /\ src = Idle /\ pc = "checked" /\ result = None
    /\ RuntimeIdle /\ CompilerIdle

\* the root Namespace is built from the schema's body
BuildIR ==
    /\ gpc = "checked"
    /\ ir' = Namespace_new(<<>>, RootName, schema)
    /\ gpc' = "ir"
    /\ UNCHANGED <<schema, side, protocol, handler, parserVars, runtimeVars, compilerVars>>

\* the Protocol of the root scope is written from the IR's functions
EmitProtocol ==
    /\ gpc = "ir"
    /\ protocol' = Protocol(Namespace_funs(ir), 0)
    /\ gpc' = "protocol"
    /\ UNCHANGED <<schema, side, ir, handler, parserVars, runtimeVars, compilerVars>>

\* the Handler of one side is written from the schema's anchored body
EmitHandler(sd) ==
    /\ gpc = "protocol"
    /\ handler' = define_handler(sd, anchor(Stack_new, schema))
    /\ side' = sd
    /\ gpc' = "emitted"
    /\ UNCHANGED <<schema, ir, protocol, parserVars, runtimeVars, compilerVars>>

GenNext == BuildIR \/ EmitProtocol \/ \E sd \in Sides : EmitHandler(sd)

GenSpec == GenInit /\ [][GenNext]_vars

-----------------------------------------------------------------------------
(* What the generators wrote, function by function *)

\* the functions of the Protocol's function list
IRFuns == Namespace_funs(ir)
\* every function declaration of the schema, anchored
SchemaFuns == for_each_fun_of_schema(anchor(Stack_new, schema))
\* the functions the Handler of the emitted side has slots for
HandlerFuns == Handler_for_each_fun(side, anchor(Stack_new, schema))
AtomKinds == <<"Request", "Request", "Notification">>

(* C1: for every function of the Protocol's function list, the `method`     *)
(* written for each dispatch union maps the case carrying the function's    *)
(* variant identifier to the function's dotted RPC name, which is the       *)
(* string Anchored::method derives for the same declaration.                *)
C1_MethodReturnsRpcName ==
    gpc \in {"protocol", "emitted"} =>
        /\ \A a \in 1..3 : \A fun \in Range(Atom_funs(IRFuns, AtomKinds[a])) :
              method_lookup(protocol[a], Fun_variant(fun)) = rpc_name(fun)
        /\ \A fun \in Range(IRFuns) : \E f \in Range(SchemaFuns) :
              f.inner = fun.decl /\ names(f) = fun.tokens /\ method(f) = rpc_name(fun)

(* C2: for every function the handler has a slot for, the case identifier   *)
(* the adapter matches in Params and wraps in Results (Anchored::variant)   *)
(* is the same string as the case identifier the dispatch unions were       *)
(* defined with (Fun::variant).                                             *)
C2_SameVariantString ==
    gpc = "emitted" =>
        \A j \in 1..Len(handler.ons) : \A fun \in Range(IRFuns) :
            rpc_name(fun) = method(HandlerFuns[j]) =>
                /\ handler.ons[j].params = Fun_variant(fun)
                /\ handler.ons[j].results = Fun_variant(fun)

(* C3: two functions of one schema with different dotted RPC names never    *)
(* get the same flattened identifier, whether it is the union case of       *)
(* Fun::variant, the case of Anchored::variant or the slot key of           *)
(* Anchored::qualified_name.                                                *)
C3_FlatteningInjective ==
    gpc = "emitted" =>
        /\ \A f, g \in Range(IRFuns) :
              rpc_name(f) # rpc_name(g) => Fun_variant(f) # Fun_variant(g)
        /\ \A f, g \in Range(SchemaFuns) :
              method(f) # method(g) =>
                  /\ variant(f) # variant(g)
                  /\ qualified_name(f) # qualified_name(g)

(* C10: the protocol generator and the handler generator visit the          *)
(* functions in the same order: the functions of the handler's side, in     *)
(* the order the Protocol's function list has them, are the functions the   *)
(* handler has slots for, in the order of the slots.                        *)
C10_SameVisitOrder ==
    gpc = "emitted" =>
        With([fs \in {SelectSeq(IRFuns, LAMBDA fun : fun.decl.side = side)} |->
            [j \in 1..Len(fs) |-> rpc_name(fs[j])]
                = [j \in 1..Len(HandlerFuns) |-> method(HandlerFuns[j])]])

-----------------------------------------------------------------------------
(* The generated Handler<T> at run time: what the text written by           *)
(* Handler::define_handler and Handler::write_on_body does once compiled.   *)
(* A slot field holds None or Some(adapter); an adapter is the closure      *)
(* `|state, client, params| { .. }` of write_on_body around the user's      *)
(* callback.  A value of an enum is [case, payload]; two cases are the      *)
(* same case when they have the same identifier.                            *)

MaxRunFuns == 2     \* functions in a schema whose handler is run
MaxCalls == 2       \* adapter calls running at once

N__ == <<"_","_">>
N__1 == <<"_","1">>
\* the function declarations of the schemas whose handler is run
RunCatalogue ==
    { [name |-> N_c,   side |-> "Server", modifiers |-> {"Server"}],
      [name |-> N_b,   side |-> "Server", modifiers |-> {"Server"}],
      [name |-> N__1,  side |-> "Server", modifiers |-> {"Server"}] }
RunNsNames == {N__, N_b}

\* the lists of at most n functions without a body, names unique
RunFunSeqs(n) ==
    {fs \in Seqs({FunctionDecl(c, None) : c \in RunCatalogue}, n) :
        \A i, j \in 1..Len(fs) : fs[i].name = fs[j].name => i = j}

\* a root body with functions, and at most one namespace with functions
RunSchemas ==
    {[functions |-> fs, structs |-> <<>>, namespaces |-> <<>>] :
        fs \in RunFunSeqs(MaxRunFuns)}
    \cup UNION { {[functions |-> fs, structs |-> <<>>,
                   namespaces |-> <<[name |-> nm,
                                     body |-> [functions |-> gs, structs |-> <<>>,
                                               namespaces |-> <<>>]]>>] :
                      nm \in RunNsNames,
                      gs \in {g \in RunFunSeqs(MaxRunFuns) : Len(fs) + Len(g) <= MaxRunFuns}} :
                 fs \in RunFunSeqs(MaxRunFuns) }

Callbacks == {"g", "h"}
StateHandle == "state"
ClientHandle == "client"
Payloads == {"p"}
RetOk(v) == [ok |-> TRUE, v |-> v]
RetErr(e) == [ok |-> FALSE, e |-> e]
WrongParams == RetErr("WrongParams")
\* what a user callback can return
UserReturns == {RetOk("r"), RetErr("e")}

\* the slot fields of the struct Handler<T>
SlotNames(h) == Range(h.slots)
\* a Handler<T> before any registration: every slot is None
Handler_new(h) == [n \in SlotNames(h) |-> None]

\* the closure `on_<qfn>` boxes for the callback f: the Params case it
\* matches, the Results case it wraps with, the callback it calls
adapter(on, j, f) ==
    [fn |-> j, slot |-> on.slot, pattern |-> on.params, wrap |-> on.results,
     callback |-> f]

\* `let params = match params { Params::<variant>(p) => p, _ => return Err(WrongParams) }`
adapter_matches(ad, params) == params.case = ad.pattern
\* `let call = Call { state, client, params }`
Call(state, client, p) == [state |-> state, client |-> client, params |-> p]
\* `f(call).map(Results::<variant>)`
adapter_return(ad, r) ==
    IF r.ok THEN RetOk([case |-> ad.wrap, payload |-> r.v]) ELSE r

\* the cases of the Params enum the protocol defines
ParamsCases == {protocol[1].cases[j].variant : j \in 1..Len(protocol[1].cases)}

RunInit ==
    /\ schema \in RunSchemas
    /\ side \in Sides
    /\ ir = Namespace_new(<<>>, RootName, schema)
    /\ protocol = Protocol(Namespace_funs(ir), 0)
    /\ handler = define_handler(side, anchor(Stack_new, schema))
    /\ gpc = "emitted"
    /\ phase = "registration"
    /\ slots = Handler_new(handler)
    /\ inflight = {} /\ returned = <<>>
    /\ doc = Idle /\ src = Idle /\ pc = "checked" /\ result = None
    /\ CompilerIdle

\* on_<qfn>(&mut self, f): needs the Handler exclusively, so no adapter of
\* it is running; `self.on_<qfn> = Some(Box::new(..))`
Register(j, f) ==
    /\ phase \in {"registration", "dispatch"}
    /\ inflight = {}
    /\ slots' = [slots EXCEPT ![handler.ons[j].slot] = Some(adapter(handler.ons[j], j, f))]
    /\ UNCHANGED <<phase, inflight, returned, parserVars, codegenVars, compilerVars>>

\* the number a call is known by while it runs
free_id == CHOOSE n \in 1..MaxCalls :
                /\ \A c \in inflight : c.id # n
                /\ \A m \in 1..(n - 1) : \E c \in inflight : c.id = m

\* the adapter of a slot is called with a Params value: it returns
\* WrongParams at once, or calls the callback with a Call; `returned` holds
\* what the adapter call that returned last did
StartCall(name, case, p) ==
    /\ phase \in {"registration", "dispatch"}
    /\ slots[name].some
    /\ Cardinality(inflight) < MaxCalls
    /\ phase' = "dispatch"
    /\ inflight' =
            IF adapter_matches(slots[name].v, [case |-> case, payload |-> p])
            THEN inflight \cup
                    {[id |-> free_id,
                      adapter |-> slots[name].v,
                      params |-> [case |-> case, payload |-> p],
                      call |-> Call(StateHandle, ClientHandle, p)]}
            ELSE inflight
    /\ returned' =
            IF adapter_matches(slots[name].v, [case |-> case, payload |-> p])
            THEN returned
            ELSE <<[id |-> free_id,
                    adapter |-> slots[name].v,
                    params |-> [case |-> case, payload |-> p],
                    invoked |-> None, result |-> WrongParams]>>
    /\ UNCHANGED <<slots, parserVars, codegenVars, compilerVars>>

\* a generated handler that clears a slot when its adapter returns
FinishCall_once(c, r) ==
    /\ c \in inflight
    /\ inflight' = inflight \ {c}
    /\ returned' = <<[id |-> c.id, adapter |-> c.adapter, params |-> c.params,
                      invoked |-> Some([callback |-> c.adapter.callback,
                                        call |-> c.call, returned |-> r]),
                      result |-> adapter_return(c.adapter, r)]>>
    /\ slots' = [slots EXCEPT ![c.adapter.slot] = None]
    /\ UNCHANGED <<phase, parserVars, codegenVars, compilerVars>>

\* the callback of a running adapter returns, and the adapter with it
FinishCall(c, r) ==
    /\ c \in inflight
    /\ inflight' = inflight \ {c}
    /\ returned' = <<[id |-> c.id, adapter |-> c.adapter, params |-> c.params,
                      invoked |-> Some([callback |-> c.adapter.callback,
                                        call |-> c.call, returned |-> r]),
                      result |-> adapter_return(c.adapter, r)]>>
    /\ UNCHANGED <<slots, phase, parserVars, codegenVars, compilerVars>>

RunNext ==
    \/ \E j \in 1..Len(handler.ons), f \in Callbacks : Register(j, f)
    \/ \E name \in SlotNames(handler), case \in ParamsCases, p \in Payloads :
            StartCall(name, case, p)
    \/ \E c \in inflight, r \in UserReturns : FinishCall(c, r)

RunSpec == RunInit /\ [][RunNext]_vars

-----------------------------------------------------------------------------
(* What the running handler did, call by call *)

\* the function of the Protocol's list that the handler's j-th function is
IRFunOf(j) == CHOOSE fun \in Range(IRFuns) : rpc_name(fun) = method(HandlerFuns[j])
\* the case the Params and Results enums have for the handler's j-th function
CaseOf(j) == Fun_variant(IRFunOf(j))

(* C11: when the adapter registered through on_<f> is given a Params value  *)
(* of f's case, it calls the registered callback, once, with a Call of the  *)
(* state handle, the client handle and the parameters, and when the         *)
(* callback returns r it returns the Results value of f's case around r.    *)
C11_DispatchCallsHandler ==
    phase = "dispatch" =>
        \A k \in 1..Len(returned) :
            returned[k].params.case = CaseOf(returned[k].adapter.fn) =>
                /\ returned[k].invoked.some
                /\ returned[k].invoked.v.callback = returned[k].adapter.callback
                /\ returned[k].invoked.v.call
                      = Call(StateHandle, ClientHandle, returned[k].params.payload)
                /\ returned[k].invoked.v.returned.ok =>
                      returned[k].result
                          = RetOk([case |-> CaseOf(returned[k].adapter.fn),
                                   payload |-> returned[k].invoked.v.returned.v])

(* C12: the adapter registered in f's slot, given a Params value of any     *)
(* case but f's, returns WrongParams, calls no callback and makes no        *)
(* Results value.                                                           *)
C12_OtherCaseIsWrongParams ==
    phase = "dispatch" =>
        /\ \A k \in 1..Len(returned) :
              returned[k].params.case # CaseOf(returned[k].adapter.fn) =>
                  /\ returned[k].result = WrongParams
                  /\ ~returned[k].invoked.some
        /\ \A c \in inflight : c.params.case = CaseOf(c.adapter.fn)

-----------------------------------------------------------------------------
(* The runs of the compiler: `compile <input> <output>` of one schema file, *)
(* and `build <workspace>` of the members a rules file names                *)

MaxMembers == 2     \* `build` entries in a rules file

\* a schema file: does it parse, and would the checker accept it
Files == [parses : BOOLEAN, sound : BOOLEAN]
\* a `build` entry of the rules: does it resolve to a file, and the file
Builds == [resolves : BOOLEAN, file : Files]
\* the workspace directory: is there a lavish-rules file, does it parse,
\* and what it builds
Workspaces ==
    {[name |-> "build", exists |-> FALSE, parses |-> FALSE, builds |-> <<>>],
     [name |-> "build", exists |-> TRUE, parses |-> FALSE, builds |-> <<>>]}
    \cup {[name |-> "build", exists |-> TRUE, parses |-> TRUE, builds |-> bs] :
            bs \in Seqs(Builds, MaxMembers)}
Commands == Workspaces \cup {[name |-> "compile", input |-> f] : f \in Files}

\* one call of the parser, the checker or the generator, and how it ended
Event(op, m, ok) == [op |-> op, member |-> m, ok |-> ok]
\* the members the generator has emitted
emitted == {log[k].member : k \in {j \in 1..Len(log) : log[j].op = "codegen"}}

MainInit ==
    /\ cmd \in Commands
    /\ members = {} /\ cpc = "start" /\ log = <<>>
    /\ doc = Idle /\ src = Idle /\ pc = "idle" /\ result = None
    /\ schema = Idle /\ side = "none" /\ gpc = "idle"
    /\ ir = Idle /\ protocol = Idle /\ handler = Idle
    /\ RuntimeIdle

\* check: Source::new and parser::parse, `?` on failure, unwrapped by main
check_parse ==
    /\ cmd.name = "compile" /\ cpc = "start"
    /\ log' = Append(log, Event("parse", 1, cmd.input.parses))
    /\ cpc' = IF cmd.input.parses THEN "parsed" ELSE "failed"
    /\ UNCHANGED <<cmd, members, parserVars, codegenVars, runtimeVars>>

\* check: checker::check(&module)?, modules.push(module); then compile
\* calls codegen::codegen(&modules, ..)
check_module ==
    /\ cmd.name = "compile" /\ cpc = "parsed"
    /\ log' = Append(log, Event("check", 1, cmd.input.sound))
    /\ members' = IF cmd.input.sound THEN {1} ELSE members
    /\ cpc' = IF cmd.input.sound THEN "codegen" ELSE "failed"
    /\ UNCHANGED <<cmd, parserVars, codegenVars, runtimeVars>>

\* parse_workspace, up to its loop: the rules file must exist and parse
parse_rules ==
    /\ cmd.name = "build" /\ cpc = "start"
    /\ log' = Append(log, Event("rules", 0, cmd.exists /\ cmd.parses))
    /\ cpc' = IF cmd.exists /\ cmd.parses THEN "members" ELSE "failed"
    /\ UNCHANGED <<cmd, members, parserVars, codegenVars, runtimeVars>>

\* a build that generates each member as soon as it is parsed
parse_member_and_emit(i) ==
    /\ cmd.name = "build" /\ cpc = "members"
    /\ i = Cardinality(members) + 1 /\ i <= Len(cmd.builds)
    /\ log' = IF cmd.builds[i].resolves /\ cmd.builds[i].file.parses
              THEN log \o <<Event("parse", i, TRUE), Event("codegen", i, TRUE)>>
              ELSE Append(log, Event("parse", i, FALSE))
    /\ members' = IF cmd.builds[i].resolves /\ cmd.builds[i].file.parses
                  THEN members \cup {i} ELSE members
    /\ cpc' = IF cmd.builds[i].resolves /\ cmd.builds[i].file.parses
              THEN cpc ELSE "failed"
    /\ UNCHANGED <<cmd, parserVars, codegenVars, runtimeVars>>

\* one turn of the loop of parse_workspace: resolve, read and parse the
\* i-th build, and insert it into workspace.members
parse_member(i) ==
    /\ cmd.name = "build" /\ cpc = "members"
    /\ i = Cardinality(members) + 1 /\ i <= Len(cmd.builds)
    /\ log' = Append(log, Event("parse", i,
                    cmd.builds[i].resolves /\ cmd.builds[i].file.parses))
    /\ members' = IF cmd.builds[i].resolves /\ cmd.builds[i].file.parses
                  THEN members \cup {i} ELSE members
    /\ cpc' = IF cmd.builds[i].resolves /\ cmd.builds[i].file.parses
              THEN cpc ELSE "failed"
    /\ UNCHANGED <<cmd, parserVars, codegenVars, runtimeVars>>

\* build: parse_workspace returned Ok(workspace), codegen::codegen is called
build_codegen ==
    /\ cmd.name = "build" /\ cpc = "members"
    /\ Cardinality(members) = Len(cmd.builds)
    /\ cpc' = "codegen"
    /\ UNCHANGED <<cmd, members, log, parserVars, codegenVars, runtimeVars>>

\* generator.emit_workspace: the members of the workspace, a HashMap, are
\* emitted in the order the map yields them
emit_member(m) ==
    /\ cpc = "codegen"
    /\ m \in members \ emitted
    /\ log' = Append(log, Event("codegen", m, TRUE))
    /\ UNCHANGED <<cmd, members, cpc, parserVars, codegenVars, runtimeVars>>

\* codegen: "Codegen done!", Ok(())
codegen_done ==
    /\ cpc = "codegen"
    /\ members \subseteq emitted
    /\ cpc' = "done"
    /\ UNCHANGED <<cmd, members, log, parserVars, codegenVars, runtimeVars>>

MainNext ==
    \/ check_parse
    \/ check_module
    \/ parse_rules
    \/ \E i \in 1..MaxMembers : parse_member(i)
    \/ build_codegen
    \/ \E m \in members : emit_member(m)
    \/ codegen_done

MainSpec == MainInit /\ [][MainNext]_vars

(* C14: in every run of the compiler, the generator is started on a module  *)
(* only after the checker ran on that module and accepted it; when parsing  *)
(* or checking fails the generator is never called.                         *)
C14_CodegenOnlyAfterCheck ==
    /\ \A k \in 1..Len(log) :
          log[k].op = "codegen" =>
              \E j \in 1..(k - 1) : log[j] = Event("check", log[k].member, TRUE)
    /\ cpc = "failed" => emitted = {}

(* C15: during `build` each member is parsed, checked and generated to the  *)
(* end before the parsing of the next member begins.                        *)
C15_OneMemberAtATime ==
    cmd.name = "build" =>
        \A k \in 1..Len(log) :
            (log[k].op = "parse" /\ log[k].member > 1) =>
                \E j \in 1..(k - 1) :
                    log[j] = Event("codegen", log[k].member - 1, TRUE)

(* C15, as the code has it: during `build` the members are parsed one after *)
(* another in the order of the rules file, and the generator is called once *)
(* for the whole workspace, after the last member is parsed: every member   *)
(* is emitted after every member was parsed.                                *)
C15_ParseAllThenGenerate ==
    cmd.name = "build" =>
        /\ \A k \in 1..Len(log) :
              log[k].op = "parse" =>
                  log[k].member = Cardinality({j \in 1..k : log[j].op = "parse"})
        /\ \A k \in 1..Len(log) :
              log[k].op = "codegen" =>
                  \A i \in 1..Len(cmd.builds) :
                      \E j \in 1..(k - 1) : log[j] = Event("parse", i, TRUE)

\* a build of two members ended: both were parsed, then both were emitted
C15_Witness ==
    /\ cmd.name = "build" /\ cpc = "done"
    /\ Len(cmd.builds) >= 2
    /\ emitted = 1..Len(cmd.builds)

-----------------------------------------------------------------------------
(* The names of a function and the order of its siblings *)

\* the orders the elements of a list can be written in
Orders(s) ==
    {[i \in 1..Len(s) |-> s[q[i]]] :
        q \in {r \in [1..Len(s) -> 1..Len(s)] :
                 \A a, b \in 1..Len(s) : r[a] = r[b] => a = b}}

RECURSIVE Mirror(_)
\* the body with every list of siblings, at every depth, written backwards
Mirror(b) ==
    [functions  |-> Reverse([j \in 1..Len(b.functions) |->
                        [b.functions[j] EXCEPT !.body =
                            IF @.some THEN Some(Mirror(@.v)) ELSE @]]),
     structs    |-> Reverse(b.structs),
     namespaces |-> Reverse([j \in 1..Len(b.namespaces) |->
                        [b.namespaces[j] EXCEPT !.body = Mirror(@)]])]

\* the schema with its sibling declarations in another order
Rearranged(b) ==
    UNION { {[functions |-> fs, structs |-> c.structs, namespaces |-> nss] :
                fs \in Orders(c.functions), nss \in Orders(c.namespaces)} :
            c \in {b, Mirror(b)} }

\* what the IR derives for each function, by the chain of names it is
\* declared under
DerivedNames(n) ==
    {[chain          |-> f.tokens,
      rpc_name       |-> rpc_name(f),
      qualified_name |-> Fun_qualified_name(f),
      variant        |-> Fun_variant(f)] : f \in Range(Namespace_funs(n))}

\* the same of the anchored declarations the Handler is written from
AnchoredNames(b) ==
    {[chain          |-> names(f),
      method         |-> method(f),
      qualified_name |-> qualified_name(f),
      variant        |-> variant(f)] :
        f \in Range(for_each_fun_of_schema(anchor(Stack_new, b)))}

(* C16: the RPC name, qualified name and variant of a function are fixed by *)
(* the chain of the names enclosing it and its own name: the functions of   *)
(* the IR are those of the schema, by chain, no two different derived names *)
(* belong to one chain, and writing the sibling declarations of the schema  *)
(* in another order leaves the derived names of every function as they are. *)
C16_NamesIgnoreSiblingOrder ==
    gpc = "ir" =>
        /\ {e.chain : e \in DerivedNames(ir)} = {e.chain : e \in AnchoredNames(schema)}
        /\ \A d, e \in DerivedNames(ir) : d.chain = e.chain => d = e
        /\ \A d, e \in AnchoredNames(schema) : d.chain = e.chain => d = e
        /\ \A b \in Rearranged(schema) :
              /\ DerivedNames(Namespace_new(<<>>, RootName, b)) = DerivedNames(ir)
              /\ AnchoredNames(b) = AnchoredNames(schema)

\* the IR of a schema with two sibling functions and a function in a
\* namespace is built, and the schema can be written in another order
C16_Witness ==
    /\ gpc = "ir"
    /\ Len(schema.functions) >= 2
    /\ \E e \in DerivedNames(ir) : Len(e.chain) >= 2
    /\ \E b \in Rearranged(schema) : b # schema

-----------------------------------------------------------------------------
(* The types the cases of the dispatch unions wrap *)

\* the record types written for the functions: FunStruct::qualified_type of
\* Fun::params and Fun::results, seen from the scope of the Atoms
RecordTypes ==
    {Atom_root(1) \o qualified_type(IRFuns[j], k) :
        j \in 1..Len(IRFuns), k \in {Str_Params, Str_Results}}
\* the FunStruct kind the cases of the three unions are to wrap
WrappedKinds == <<Str_Params, Str_Results, Str_Params>>

(* C20: every case of a dispatch union wraps the record type written for    *)
(* its function: the qualified type of the function's params in Params and  *)
(* NotificationParams, of its results in Results; no case names a type that *)
(* no FunStruct has.                                                        *)
C20_CasesWrapRecordTypes ==
    gpc \in {"protocol", "emitted"} =>
        \A a \in 1..3 : \A j \in 1..Len(protocol[a].cases) :
            /\ protocol[a].cases[j].typ
                  = Atom_root(1) \o qualified_type(Atom_funs(IRFuns, AtomKinds[a])[j],
                                                   WrappedKinds[a])
            /\ protocol[a].cases[j].typ \in RecordTypes

-----------------------------------------------------------------------------
(* The parser run on declarations with every shape of field type, and with  *)
(* comment lines of every kind in front                                     *)

MaxTypDepth == 2        \* brackets nested in a field type
MaxCommentLines == 2    \* comment lines in front of a declaration

T_string == <<"s","t","r","i","n","g">>
T_strings == T_string \o <<"s">>
T_boolean == <<"b","o","o","l","e","a","n">>
T_int32x == T_int32 \o <<"x">>

Base(b) == [kind |-> "Base", base |-> b]
User(t) == [kind |-> "User", text |-> t]
\* the names of user types that begin with the keyword of a base type
KeywordNames == {T_strings, T_boolean, T_int32x}
LeafTypes == {Base("Int32"), Base("String"), User(T_Foo)} \cup {User(t) : t \in KeywordNames}
KeyTypes == {Base("String"), User(T_Foo)}

RECURSIVE Types(_)
\* the types with at most d brackets nested
Types(d) ==
    IF d = 0 THEN LeafTypes
    ELSE LeafTypes
         \cup {[kind |-> "Array", inner |-> t] : t \in Types(d - 1)}
         \cup {[kind |-> "Option", inner |-> t] : t \in Types(d - 1)}
         \cup {[kind |-> "Map", keys |-> k, values |-> v] :
                    k \in KeyTypes, v \in Types(d - 1)}

\* a type as it is written: `Array<T>`, `Option<T>`, `Map<K, V>`; padded, a
\* blank stands before every closing bracket
Styles == {"written", "padded"}
Close(st) == (IF st = "padded" THEN <<" ">> ELSE <<>>) \o <<">">>
BaseText(b) == BaseTypes[CHOOSE n \in 1..Len(BaseTypes) : BaseTypes[n].b = b].t
RECURSIVE TypText(_, _)
TypText(t, st) ==
    CASE t.kind = "Base"   -> BaseText(t.base)
      [] t.kind = "User"   -> t.text
      [] t.kind = "Array"  -> kw_Array \o <<"<">> \o TypText(t.inner, st) \o Close(st)
      [] t.kind = "Option" -> kw_Option \o <<"<">> \o TypText(t.inner, st) \o Close(st)
      [] t.kind = "Map"    -> kw_Map \o <<"<">> \o TypText(t.keys, st) \o <<",", " ">>
                                \o TypText(t.values, st) \o Close(st)

RECURSIVE UserNames(_)
\* the user types a type refers to
UserNames(t) ==
    CASE t.kind = "Base"   -> {}
      [] t.kind = "User"   -> {t.text}
      [] t.kind \in {"Array", "Option"} -> UserNames(t.inner)
      [] t.kind = "Map"    -> UserNames(t.keys) \cup UserNames(t.values)

\* `fn f(a: <type>)` in namespace n
TypDoc(t, st, tight) ==
    [items |-> <<FnItem("fn", <<>>, [tys |-> <<TypText(t, st)>>, trailing |-> FALSE],
                        NoList, <<>>)>>,
     trailer |-> "none", tight |-> tight, damage |-> NoDamage,
     ty |-> Some(t), style |-> st]

\* the comment lines in front of `fn f()`: `//` alone on its line, or `//c1`
CommentTexts == {<<>>, c1}
CommentLeads ==
    {[j \in 1..Len(l) |-> CLine(l[j])] : l \in Seqs(CommentTexts, MaxCommentLines) \ {<<>>}}
LeadDoc(lead, tight) ==
    [items |-> <<FnItem("fn", <<>>, NoFields, NoList, lead)>>,
     trailer |-> "none", tight |-> tight, damage |-> NoDamage,
     ty |-> None, style |-> "written"]

TypDocs ==
    {TypDoc(t, st, tight) : t \in Types(MaxTypDepth), st \in Styles, tight \in BOOLEAN}
    \cup {LeadDoc(l, tight) : l \in CommentLeads, tight \in BOOLEAN}

TypInit ==
    /\ doc \in TypDocs
    /\ src = Render(doc)
    /\ pc = "ready"
    /\ result = None
    /\ schema = Idle /\ side = "none" /\ gpc = "idle"
    /\ ir = Idle /\ protocol = Idle /\ handler = Idle
    /\ RuntimeIdle /\ CompilerIdle

TypSpec == TypInit /\ [][Next]_vars

\* the type the parse gives the parameter of `f`
ParsedTyp == ParsedItems[1].decl.params[1].typ
Bracketed(t) == t.kind \in {"Array", "Option", "Map"}

(* C17: written as `Array<T>`, `Option<T>` or `Map<K, V>`, a field type     *)
(* parses to the Array, Option or Map node with the inner types T, or K and *)
(* V, also where these are references to user types; it is never returned   *)
(* as a bare User type.                                                     *)
C17_BracketedTypesParse ==
    (/\ pc = "parsed" /\ doc.ty.some /\ doc.style = "written"
     /\ Bracketed(doc.ty.v)
     /\ UserNames(doc.ty.v) \cap KeywordNames = {})
        => (/\ result.k = "ok"
            /\ ParsedTyp.kind # "User"
            /\ ParsedTyp = doc.ty.v)

(* C18: the text of each comment line is what stands between its `//` and   *)
(* the next newline; a `//` with the newline right behind it gives a line   *)
(* of empty text and takes nothing of the line that follows.                *)
C18_CommentLineKeepsToItsLine ==
    (pc = "parsed" /\ ~doc.ty.some)
        => (/\ result.k = "ok"
            /\ CommentLines(ParsedItems[1].decl.comment)
                  = [j \in 1..Len(doc.items[1].lead) |-> doc.items[1].lead[j].text])

(* C19: a field type whose identifier only begins with the keyword of a     *)
(* base type (`strings`, `boolean`, `int32x`) is parsed as one User type of *)
(* the whole identifier, and the declaration parses.                        *)
C19_KeywordPrefixIsUserType ==
    (/\ pc = "parsed" /\ doc.ty.some
     /\ doc.ty.v.kind = "User" /\ doc.ty.v.text \in KeywordNames)
        => (/\ result.k = "ok"
            /\ ParsedTyp = User(doc.ty.v.text))

-----------------------------------------------------------------------------
(* Which functions the three unions have cases for *)

\* the functions of the list declared without, and with, the notification
\* modifier, in the order of the list
RequestDecls == SelectSeq(IRFuns, LAMBDA f : "Notification" \notin f.decl.modifiers)
NotificationDecls == SelectSeq(IRFuns, LAMBDA f : "Notification" \in f.decl.modifiers)
\* the case a union of the given name has for a function
CaseFor(f, name) ==
    [variant |-> Fun_variant(f),
     typ     |-> Atom_root(1) \o Fun_qualified_name(f) \o PathSep \o name]

(* C21: the request functions of the Protocol's list are the cases of       *)
(* Params, one case each and in the order of the list, the notification     *)
(* functions are the cases of NotificationParams in the same way, so every  *)
(* function has its case in exactly one of the two; and Results has the     *)
(* cases of Params, for the same functions in the same order.               *)
C21_CasesPartitionFunctions ==
    gpc \in {"protocol", "emitted"} =>
        /\ protocol[1].cases
              = [j \in 1..Len(RequestDecls) |-> CaseFor(RequestDecls[j], Str_Params)]
        /\ protocol[3].cases
              = [j \in 1..Len(NotificationDecls) |->
                    CaseFor(NotificationDecls[j], Str_NotificationParams)]
        /\ Len(protocol[1].cases) + Len(protocol[3].cases) = Len(IRFuns)
        /\ protocol[2].cases
              = [j \in 1..Len(RequestDecls) |-> CaseFor(RequestDecls[j], Str_Results)]
        /\ [j \in 1..Len(protocol[2].cases) |-> protocol[2].cases[j].variant]
              = [j \in 1..Len(protocol[1].cases) |-> protocol[1].cases[j].variant]

\* the unions of a schema with two requests and a notification are written
C21_Witness ==
    /\ gpc = "protocol"
    /\ Len(protocol[1].cases) >= 2
    /\ Len(protocol[3].cases) >= 1
    /\ protocol[1].cases[1] # protocol[1].cases[2]

-----------------------------------------------------------------------------
(* What Namespace::funs yields *)

RECURSIVE CountFuns(_)
RECURSIVE CountFunsOf(_, _)
\* the function declarations of a body with everything nested in it
CountFuns(b) ==
    CountFunsOf([j \in 1..Len(b.functions) |->
                    1 + (IF b.functions[j].body.some
                         THEN CountFuns(b.functions[j].body.v) ELSE 0)], 1)
    + CountFunsOf([j \in 1..Len(b.namespaces) |-> CountFuns(b.namespaces[j].body)], 1)
CountFunsOf(ns, j) == IF j > Len(ns) THEN 0 ELSE ns[j] + CountFunsOf(ns, j + 1)

\* how many functions a function's own body declares, at any depth
Nested(fun) == IF fun.decl.body.some THEN CountFuns(fun.decl.body.v) ELSE 0
\* how often a chain of names occurs in a list of chains
Occurs(c, chains) == Cardinality({j \in 1..Len(chains) : chains[j] = c})
IRChains == [j \in 1..Len(IRFuns) |-> IRFuns[j].tokens]
SchemaChains == [j \in 1..Len(SchemaFuns) |-> names(SchemaFuns[j])]
IsPrefix(p, q) == Len(p) < Len(q) /\ SubSeq(q, 1, Len(p)) = p

(* C22: built from a schema with unique sibling names, Namespace::funs      *)
(* yields every function declaration of the schema, at any depth and also   *)
(* in function bodies, exactly once; a function is yielded before the       *)
(* functions of its own body, which are the entries right behind it; and a  *)
(* second call, on this tree or on the tree built again, yields the same    *)
(* sequence.                                                                *)
C22_FunsYieldsEachOnce ==
    gpc \in {"ir", "protocol", "emitted"} =>
        /\ Len(IRFuns) = CountFuns(schema)
        /\ \A c \in Range(IRChains) \cup Range(SchemaChains) :
              Occurs(c, IRChains) = Occurs(c, SchemaChains)
        /\ \A i \in 1..Len(IRFuns) :
              /\ i + Nested(IRFuns[i]) <= Len(IRFuns)
              /\ \A k \in 1..Nested(IRFuns[i]) :
                    IsPrefix(IRFuns[i].tokens, IRFuns[i + k].tokens)
        /\ IRFuns = Namespace_funs(Namespace_new(<<>>, RootName, schema))

\* the IR of a schema is built in which a function with a function in its
\* body stands behind another function, or has a namespace in its body
C22_Witness ==
    /\ gpc = "ir"
    /\ \E i \in 1..Len(IRFuns) :
          /\ Nested(IRFuns[i]) >= 1
          /\ i > 1 \/ Len(IRFuns[i + 1].tokens) >= Len(IRFuns[i].tokens) + 2
-----------------------------------------------------------------------------
(* The RPC names of different declarations *)

\* sibling functions have different names, and sibling structs have
RECURSIVE UniqueInScope(_)
UniqueInScope(b) ==
    /\ \A i, j \in 1..Len(b.functions) :
          b.functions[i].name = b.functions[j].name => i = j
    /\ \A i, j \in 1..Len(b.structs) :
          b.structs[i].name = b.structs[j].name => i = j
    /\ \A j \in 1..Len(b.functions) :
          b.functions[j].body.some => UniqueInScope(b.functions[j].body.v)
    /\ \A j \in 1..Len(b.namespaces) : UniqueInScope(b.namespaces[j].body)

(* C23: when the function names and the struct names of every scope of the  *)
(* schema are unique, no two function declarations that the IR traversal or *)
(* the naming traversal visits have the same dotted RPC name, also not      *)
(* functions in the body of a function or in sibling or nested namespaces.  *)
C23_RpcNamesUnique ==
    (gpc = "emitted" /\ UniqueInScope(schema)) =>
        /\ \A i, j \in 1..Len(IRFuns) :
              rpc_name(IRFuns[i]) = rpc_name(IRFuns[j]) => i = j
        /\ \A i, j \in 1..Len(SchemaFuns) :
              method(SchemaFuns[i]) = method(SchemaFuns[j]) => i = j

-----------------------------------------------------------------------------
(* The labels a failure inside a field is reported with *)

L_params == "parameter list"
L_field == "field"

\* the damage was done inside a field, behind its name: at the colon or at
\* the type
DamageInField ==
    /\ ~Undamaged /\ doc.damage.at > 1
    /\ \/ DocLex(doc)[doc.damage.at].t = <<":">>
       \/ DocLex(doc)[doc.damage.at - 1].t = <<":">>
\* the labelled constructs open at a lexeme of a field, outermost first: the
\* field list of a function or notification is its parameter list
FieldOpen(open) ==
    IF open[Len(open)] \in {L_fn, L_nf}
    THEN open \o <<L_params, L_field>>
    ELSE Append(open, L_field)

(* C24: a failure is reported with the labels of all the committed          *)
(* constructs around the point of failure, which read from the outermost    *)
(* to the innermost are, for a malformed type of a field in the parameter   *)
(* list of a function in a namespace, exactly "namespace declaration",      *)
(* "function declaration", "parameter list", "field"; a malformed field of  *)
(* a notification, a result list or a struct has the labels of its own      *)
(* constructs in the same way.                                              *)
C24_LabelsOfEnclosingConstructs ==
    (pc = "parsed" /\ DamageInField)
        => (/\ result.k = "fail"
            /\ Reverse(result.ctx) = FieldOpen(DamageOpen))

\* the type of the parameter of a function is malformed, and the failure
\* has the four labels
C24_Witness ==
    /\ pc = "parsed" /\ DamageInField
    /\ doc.damage.how = "garbage"
    /\ DocLex(doc)[doc.damage.at - 1].t = <<":">>
    /\ DamageOpen = <<L_ns, L_fn>>
    /\ result.k = "fail"
    /\ Reverse(result.ctx) = <<L_ns, L_fn, L_params, L_field>>

=============================================================================
